---- MODULE Spec2Model ----
(***************************************************************************)
(* hue-lighter: the light-automation loop (internal/services/              *)
(* light_automation/service.go), the shutdown coordinator (internal/       *)
(* services/events/event-bus.go) and the main flow (internal/app/app.go).  *)
(*                                                                         *)
(* Tasks: the main flow (App.Run), the coordinator's accept-loop           *)
(* goroutine, the tick-loop goroutines spawned by Service.Start, and, in   *)
(* the lifecycle specification SpecSvc, a driver task that calls           *)
(* Service.Start and Service.Stop in any order; SpecDay is SpecSvc with the *)
(* clock running.                                                          *)
(*                                                                         *)
(* The clock is counted in minutes; the 1-second ticker fires any number   *)
(* of times within one clock unit.                                         *)
(***************************************************************************)
EXTENDS Integers, Sequences, FiniteSets, TLC

\* ---------------------------------------------------------------- bounds
NLights == 2
MaxLoops == 2
MaxBacklog == 1
MaxOpen == 2
MaxTime == 7
MaxCalls == 3
MaxCmds == 3
\* FileAPIKeyStore instances sharing the file
NStores == 2
\* connections waiting at the socket in SpecQueue
MaxQueue == 2

\* ------------------------------------------------------ program constants
\* 5*time.Minute, service.go:73
RefreshInterval == 5
\* api_key.go:75: refreshInterval of a FileAPIKeyStore, in seconds
StoreRefreshInterval == 5
\* the two results of sunset.CalculateSunriseSunset for the modelled day
Sunrise == 1
Sunset == 6
\* the zero time.Time of Service.lastLightStateRefresh: long before any tick
ZeroTime == 0 - (RefreshInterval + 1)

EVENT_TYPE_SHUTDOWN == "shutdown"

\* the bridge the client talks to, the device names and the usernames the bridge
\* hands out
BridgeID == "bridge-1"
Names == {"dev-a", "dev-b"}
Usernames == {"user-1", "user-2"}
\* the empty key: what line 33 of RegisterDevice takes for "not registered"
NoKey == ""

\* the FileAPIKeyStore instances opened on the one path
Stores == 1..NStores
\* api_key.go:74: lastLoadTimestamp of a new store, time.Time{}: further back than
\* any refresh interval
StoreZeroTime == 0 - StoreRefreshInterval

Lights == 1..NLights
Loops == 1..MaxLoops
Payloads == {EVENT_TYPE_SHUTDOWN, "other", "silent"}

VARIABLES
    proc,          \* "running" | "exited" (App.Run returned, main returned) | "crashed" (a panic)
    crashCause,    \* which panic ended the process
    now,           \* wall clock
    bridgeOn,      \* the real on/off state of each light at the bridge
    \* ---- light_automation.Service
    ticker,        \* Service.ticker: 0 is nil, k the ticker created by the k-th successful Start
    tickerActive,  \* tickers created and not yet stopped
    tickC,         \* tickers whose channel C holds a buffered tick (capacity 1)
    stopClosed,    \* Service.tickerStop has been closed
    lightStates,   \* Service.lightStates (a missing key reads false)
    lastRefresh,   \* Service.lastLightStateRefresh
    \* ---- tick-loop goroutines
    lpc, lidx, ltarget,
    \* ---- App.Run
    mpc, sigPending, stopChnClosed, viaSignal,
    \* ---- ExternalEventService
    cpc, cidx, cfailed, cprog, listenerOpen, sockFile, backlog, openConns,
    saotlCalls, stopSends,
    listenerSet,   \* ExternalEventService.listener is not nil
    \* ---- lifecycle driver (SpecSvc)
    dpc, startCalls, stopCalls, stopped,
    \* ---- history: while the coordinator was inside StopAndTurnOffLights a loop
    \* task was inside a refresh or light pass, or a light was switched out of band
    overlap,
    \* ---- history: the loop tasks whose current tick has run a refresh pass
    refreshedTick,
    \* ---- recording Light Controller: the turn-on / turn-off commands received,
    \* in order, while a recorder is attached (SpecTicks)
    cmdLog, recording,
    \* ---- the --shutdown client: what its last signalShutdown call returned
    clientResult,
    \* ---- device_registration.Service
    keyStore,      \* the APIKeyStore: the key held under each identifier, NoKey if none
    clientDevice,  \* Client.DeviceName()
    regLast,       \* the last RegisterDevice call: its argument, what it returned,
                   \* what the bridge answered, how the store's Set ended
    \* ---- FileAPIKeyStore instances on one path
    storeFile,     \* the file: whether it exists, and the key it holds per identifier
    store,         \* per instance: FileAPIKeyStore.store, the in-memory map
    lastLoadTimestamp,  \* per instance
    storeLast,     \* the last call on an instance: operation, instance, identifier,
                   \* the key passed to Set, the error returned (Get returns the
                   \* key of the map with it)
    \* ---- config.Config
    cfgLights      \* Config.Lights: per light, whether ID and Name are non-nil

procVars == <<proc, crashCause>>
envVars == <<now, bridgeOn>>
svcVars == <<ticker, tickerActive, tickC, stopClosed, lightStates, lastRefresh>>
loopVars == <<lpc, lidx, ltarget>>
mainVars == <<mpc, sigPending, stopChnClosed, viaSignal>>
coordVars == <<cpc, cidx, cfailed, cprog, listenerOpen, sockFile, backlog, openConns,
              saotlCalls, stopSends, listenerSet>>
drvVars == <<dpc, startCalls, stopCalls, stopped>>
obsVars == <<cmdLog, recording, clientResult>>
storeVars == <<keyStore, clientDevice, regLast>>
fileVars == <<storeFile, store, lastLoadTimestamp, storeLast>>
vars == <<proc, crashCause, now, bridgeOn, ticker, tickerActive, tickC, stopClosed,
          lightStates, lastRefresh, lpc, lidx, ltarget, mpc, sigPending,
          stopChnClosed, viaSignal, cpc, cidx, cfailed, cprog, listenerOpen, sockFile,
          backlog, openConns, saotlCalls, stopSends, listenerSet, dpc, startCalls,
          stopCalls, stopped, overlap, cmdLog, recording, clientResult,
          keyStore, clientDevice, regLast,
          storeFile, store, lastLoadTimestamp, storeLast, refreshedTick, cfgLights>>

Running == proc = "running"

\* a panic in any goroutine ends the process
Crash(cause) == proc' = "crashed" /\ crashCause' = cause

\* ------------------------------------------------------------ pure helpers
\* C29 mutant: the instants of sunrise and sunset count as night
IsNight_Inclusive(t) == t <= Sunrise \/ t >= Sunset

\* service.go:80  isNight := tickTime.Before(sunrise) || tickTime.After(sunset)
IsNight(t) == t < Sunrise \/ t > Sunset

\* C23 mutant: the refresh is due at the interval, not past it
RefreshDue_AtInterval(t) == t - lastRefresh >= RefreshInterval

\* service.go:73  time.Since(s.lastLightStateRefresh) > 5*time.Minute
RefreshDue(t) == t - lastRefresh > RefreshInterval

\* positions of a tick loop inside refreshLightStates / setLightsState
LoopInPass(k) == lpc[k] \in {"refresh0", "refresh", "pass"}
\* positions of the coordinator inside StopAndTurnOffLights' setLightsState(false)
CoordInPass == cpc = "pass"
\* positions of the coordinator inside StopAndTurnOffLights (service.go:137-141)
CoordInShutdown == cpc \in {"stop_check", "stop_nil", "stop_close", "pass"}
Overlapping == CoordInShutdown /\ \E k \in Loops : LoopInPass(k)
\* two goroutines are inside passes over s.lightStates
CacheShared == CoordInPass /\ \E k \in Loops : LoopInPass(k)

\* ------------------------------------------------- light_automation.Service
\* C12 mutant: a command leaves the cache as it was
CacheAfterCommand_Unchanged(l, turnOn, ok) == lightStates

\* service.go:96-106 / 110-119: the cache entry after a command was issued; the
\* assignment follows the error check without an else or a continue
CacheAfterCommand(l, turnOn, ok) == [lightStates EXCEPT ![l] = turnOn]

\* service.go:96 / 110: the light is skipped when the cache already reads the target
SkipLight(l, turnOn) == lightStates[l] = turnOn

\* config.go:13-16: Lights[l].ID is a *string; service.go:96, 126 read *lightCfg.ID
HasID(l) == cfgLights[l].ID

\* service.go:101 / 115: the controller receives TurnOnLightById / TurnOffLightById
\* for light l and answers ok or with an error
CommandReceived(l, turnOn, ok) ==
    IF recording /\ Len(cmdLog) < MaxCmds
    THEN Append(cmdLog, [light |-> l, on |-> turnOn, ok |-> ok])
    ELSE cmdLog

\* service.go:92-121: one iteration of setLightsState for light l; ok is the
\* outcome of TurnOnLightById / TurnOffLightById. The iteration starts by reading
\* s.lightStates[*lightCfg.ID] (service.go:96), which dereferences a nil ID
SetLightStep(l, turnOn, ok) ==
    IF ~HasID(l)
    THEN Crash("nil_light_id") /\ UNCHANGED <<lightStates, bridgeOn, cmdLog>>
    ELSE /\ UNCHANGED procVars
         /\ IF SkipLight(l, turnOn)
            THEN UNCHANGED <<lightStates, bridgeOn, cmdLog>>
            ELSE /\ bridgeOn' = IF ok THEN [bridgeOn EXCEPT ![l] = turnOn] ELSE bridgeOn
                 /\ cmdLog' = CommandReceived(l, turnOn, ok)
                 /\ lightStates' = CacheAfterCommand(l, turnOn, ok)

\* service.go:125-132: one iteration of refreshLightStates for light l; outcome is
\* the result of GetOneLightById: a light, an error, or (nil, nil) when the bridge
\* answers without data (hue_client, len(lights.Data) == 0), on which state.On.On
\* dereferences nil
FetchOutcomes == {"ok", "err", "nodata"}

\* C25 mutant: a fetched state is not written to the cache
CacheAfterFetch_Keep(l) == lightStates

\* service.go:128: s.lightStates[id] = state.On.On
CacheAfterFetch(l) == [lightStates EXCEPT ![l] = bridgeOn[l]]

RefreshStep(l, outcome) ==
    CASE ~HasID(l) -> Crash("nil_light_id") /\ UNCHANGED lightStates
      [] outcome = "ok" ->
            /\ lightStates' = CacheAfterFetch(l)
            /\ UNCHANGED procVars
      [] outcome = "err" -> UNCHANGED <<lightStates, procVars>>
      [] OTHER -> Crash("nil_light") /\ UNCHANGED lightStates

\* C9 mutant: Start without its guard
StartAlreadyRunning_Never == FALSE

\* service.go:36: Start's guard
StartAlreadyRunning == ticker # 0

LoopsSpawned == Cardinality({k \in Loops : lpc[k] # "none"})

\* service.go:34-46: Service.Start; the new ticker and the goroutine running
\* runAutomationTickerLoop carry the same number
ServiceStart ==
    IF StartAlreadyRunning
    THEN UNCHANGED <<ticker, tickerActive, lpc>>
    ELSE LET k == LoopsSpawned + 1 IN
         /\ ticker' = k
         /\ tickerActive' = tickerActive \cup {k}
         /\ lpc' = [lpc EXCEPT ![k] = "entry"]

\* the cap on goroutines the model follows
CanStart == StartAlreadyRunning \/ LoopsSpawned < MaxLoops

\* service.go:144: Stop returns at once when the ticker is nil
StopNotRunning == ticker = 0

\* service.go:151-154: ticker.Stop(); ticker = nil. When another caller of Stop
\* has set s.ticker to nil since this caller's check at line 144, the unsynchronised
\* second read yields nil, and ticker.Stop() dereferences it, or the value the
\* check read, and the stopped ticker is stopped again
StopReleaseTicker ==
    /\ tickerActive' = tickerActive \ {ticker}
    /\ ticker' = 0
    /\ IF ticker = 0
       THEN Crash("stop_nil_ticker") \/ UNCHANGED procVars
       ELSE UNCHANGED procVars

\* service.go:155: close(s.tickerStop); closing a closed channel panics
StopCloseChannel ==
    IF stopClosed
    THEN Crash("double_close") /\ UNCHANGED stopClosed
    ELSE stopClosed' = TRUE /\ UNCHANGED procVars

HistStep == overlap' = (overlap \/ Overlapping')

\* ------------------------------------------------------ tick-loop goroutine
\* service.go:48-53: the goroutine starts, registers the deferred Stop and
\* enters the initial refreshLightStates
LoopEntry(k) ==
    /\ Running /\ lpc[k] = "entry"
    /\ lpc' = [lpc EXCEPT ![k] = "refresh0"]
    /\ lidx' = [lidx EXCEPT ![k] = 1]
    /\ UNCHANGED <<procVars, envVars, svcVars, ltarget, mainVars, coordVars, drvVars, obsVars, storeVars, fileVars, cfgLights, refreshedTick>>
    /\ HistStep

\* service.go:124-135: one fetch of refreshLightStates, at start (refresh0) or
\* inside a tick (refresh); the pass ends by setting lastLightStateRefresh
LoopRefreshWith(k, outcome) ==
    /\ Running /\ lpc[k] \in {"refresh0", "refresh"}
    /\ RefreshStep(lidx[k], outcome)
    /\ IF lidx[k] < NLights
       THEN /\ lidx' = [lidx EXCEPT ![k] = lidx[k] + 1]
            /\ UNCHANGED <<lpc, lastRefresh>>
       ELSE /\ lidx' = [lidx EXCEPT ![k] = 1]
            /\ lastRefresh' = now
            /\ lpc' = [lpc EXCEPT ![k] = IF lpc[k] = "refresh0" THEN "select" ELSE "pass"]
    /\ UNCHANGED <<envVars, ticker, tickerActive, tickC, stopClosed, ltarget,
                   mainVars, coordVars, drvVars, obsVars, storeVars, fileVars, cfgLights, refreshedTick>>
    /\ HistStep

LoopRefresh(k) == \E outcome \in FetchOutcomes : LoopRefreshWith(k, outcome)

\* service.go:57: the select evaluates s.ticker.C on entry. s.ticker is written by
\* Stop and Start on other goroutines without synchronisation, so the read yields
\* the current value or the ticker this goroutine was started with.
TickerRead(k) == {ticker, k}

\* service.go:69-88: runAutomation up to the choice of the pass: the tick time is
\* captured, the refresh is decided, and the window is classified from the
\* captured time
LoopSelectTick(k) ==
    /\ Running /\ lpc[k] = "select"
    /\ \E tk \in TickerRead(k) :
          /\ tk # 0 /\ tk \in tickC
          /\ tickC' = tickC \ {tk}
    /\ ltarget' = [ltarget EXCEPT ![k] = IsNight(now)]
    /\ lidx' = [lidx EXCEPT ![k] = 1]
    /\ lpc' = [lpc EXCEPT ![k] = IF RefreshDue(now) THEN "refresh" ELSE "pass"]
    /\ refreshedTick' = IF RefreshDue(now) THEN refreshedTick \cup {k}
                                           ELSE refreshedTick \ {k}
    /\ UNCHANGED <<procVars, envVars, ticker, tickerActive, stopClosed, lightStates,
                   lastRefresh, mainVars, coordVars, drvVars, obsVars, storeVars, fileVars, cfgLights>>
    /\ HistStep

\* service.go:59-61: the closed tickerStop is received; the function returns and
\* the deferred Stop runs
LoopSelectStop(k) ==
    /\ Running /\ lpc[k] = "select"
    /\ \E tk \in TickerRead(k) : tk # 0
    /\ stopClosed
    /\ lpc' = [lpc EXCEPT ![k] = "dstop_check"]
    /\ UNCHANGED <<procVars, envVars, svcVars, lidx, ltarget, mainVars,
                   coordVars, drvVars, obsVars, storeVars, fileVars, cfgLights, refreshedTick>>
    /\ HistStep

\* service.go:57: s.ticker reads nil, s.ticker.C dereferences it
LoopSelectNil(k) ==
    /\ Running /\ lpc[k] = "select"
    /\ 0 \in TickerRead(k)
    /\ Crash("nil_ticker")
    /\ UNCHANGED <<envVars, svcVars, loopVars, mainVars, coordVars, drvVars, obsVars, storeVars, fileVars, cfgLights, refreshedTick, overlap>>

\* service.go:83-88 with 91-122: one light of the tick's setLightsState; isNight
\* is a local of runAutomation and is gone when the pass returns
LoopPassWith(k, ok) ==
    /\ Running /\ lpc[k] = "pass"
    /\ SetLightStep(lidx[k], ltarget[k], ok)
    /\ IF lidx[k] < NLights
       THEN /\ lidx' = [lidx EXCEPT ![k] = lidx[k] + 1]
            /\ UNCHANGED <<lpc, ltarget, refreshedTick>>
       ELSE /\ lidx' = [lidx EXCEPT ![k] = 1]
            /\ lpc' = [lpc EXCEPT ![k] = "select"]
            /\ ltarget' = [ltarget EXCEPT ![k] = FALSE]
            /\ refreshedTick' = refreshedTick \ {k}
    /\ UNCHANGED <<now, ticker, tickerActive, tickC, stopClosed, lastRefresh,
                   mainVars, coordVars, drvVars, recording, clientResult, storeVars, fileVars, cfgLights>>
    /\ HistStep

LoopPass(k) == \E ok \in BOOLEAN : LoopPassWith(k, ok)

\* service.go:51 with 143-156: the deferred Stop of the returning loop
LoopDeferredStop(k) ==
    /\ Running /\ lpc[k] \in {"dstop_check", "dstop_nil", "dstop_close"}
    /\ CASE lpc[k] = "dstop_check" ->
               /\ lpc' = [lpc EXCEPT ![k] = IF StopNotRunning THEN "done" ELSE "dstop_nil"]
               /\ UNCHANGED <<procVars, svcVars>>
         [] lpc[k] = "dstop_nil" ->
               /\ StopReleaseTicker
               /\ lpc' = [lpc EXCEPT ![k] = "dstop_close"]
               /\ UNCHANGED <<tickC, stopClosed, lightStates, lastRefresh>>
         [] OTHER ->
               /\ StopCloseChannel
               /\ lpc' = [lpc EXCEPT ![k] = "done"]
               /\ UNCHANGED <<ticker, tickerActive, tickC, lightStates, lastRefresh>>
    /\ UNCHANGED <<envVars, lidx, ltarget, mainVars, coordVars, drvVars, obsVars, storeVars, fileVars, cfgLights, refreshedTick>>
    /\ HistStep

LoopStep(k) ==
    \/ LoopEntry(k)
    \/ LoopRefresh(k)
    \/ LoopSelectTick(k)
    \/ LoopSelectStop(k)
    \/ LoopSelectNil(k)
    \/ LoopPass(k)
    \/ LoopDeferredStop(k)

\* ----------------------------------------- ExternalEventService.Start / Stop
\* event-bus.go:30-33: net.Listen fails when the socket path exists (a file left
\* behind by an earlier process, or a listener still bound to it)
ListenFails == sockFile

\* event-bus.go:28-36 and 80-81: Start binds the socket path, keeps the listener
\* and starts the accept goroutine; when Listen fails it returns the error and
\* changes nothing
EventStart ==
    IF ListenFails
    THEN UNCHANGED <<cpc, listenerOpen, sockFile, listenerSet>>
    ELSE /\ listenerOpen' = TRUE
         /\ sockFile' = TRUE
         /\ listenerSet' = TRUE
         /\ cpc' = "accept"

\* event-bus.go:99-108: Stop closes the listener when there is one and returns nil;
\* closing a listening unix socket unlinks its file, closing it again does nothing
EventStop ==
    IF listenerSet
    THEN /\ listenerOpen' = FALSE
         /\ sockFile' = IF listenerOpen THEN FALSE ELSE sockFile
    ELSE UNCHANGED <<listenerOpen, sockFile>>

\* --------------------------------------------------------------- App.Run
\* app.go:43-45: a.lightService.Start() (RegisterDevice, app.go:38, has succeeded)
MainStartLight ==
    /\ Running /\ mpc = "startLight" /\ CanStart
    /\ ServiceStart
    /\ mpc' = "startEvents"
    /\ UNCHANGED <<procVars, envVars, tickC, stopClosed, lightStates, lastRefresh, lidx,
                   ltarget, sigPending, stopChnClosed, viaSignal, coordVars, drvVars, obsVars, storeVars, fileVars, cfgLights, refreshedTick>>
    /\ HistStep

\* app.go:47-52 with event-bus.go:28-36: a.eventService.Start(), then
\* signal.Notify registers signalChan; when Start fails Run returns the error and
\* main ends the process (main, lines 26-28)
MainStartEvents ==
    /\ Running /\ mpc = "startEvents"
    /\ EventStart
    /\ IF ListenFails
       THEN mpc' = "failed" /\ proc' = "exited" /\ UNCHANGED crashCause
       ELSE mpc' = "select" /\ UNCHANGED procVars
    /\ UNCHANGED <<envVars, svcVars, loopVars, sigPending, stopChnClosed, viaSignal, cidx,
                   cfailed, cprog, backlog, openConns, saotlCalls, stopSends,
                   drvVars, obsVars, storeVars, fileVars, cfgLights, refreshedTick>>
    /\ HistStep

\* app.go:57-59: the select receives the OS signal
MainRecvSignal ==
    /\ Running /\ mpc = "select" /\ sigPending
    /\ sigPending' = FALSE
    /\ viaSignal' = TRUE
    /\ mpc' = "close"
    /\ UNCHANGED <<procVars, envVars, svcVars, loopVars, stopChnClosed, coordVars, drvVars, obsVars, storeVars, fileVars, cfgLights, refreshedTick,
                   overlap>>

\* app.go:66-67: close(signalChan); close(a.StopChn)
MainCloseChannels ==
    /\ Running /\ mpc = "close"
    /\ stopChnClosed' = TRUE
    /\ mpc' = "stop_check"
    /\ UNCHANGED <<procVars, envVars, svcVars, loopVars, sigPending, viaSignal, coordVars,
                   drvVars, obsVars, storeVars, fileVars, cfgLights, refreshedTick, overlap>>

\* app.go:77 with service.go:143-156: a.lightService.Stop()
MainLightStop ==
    /\ Running /\ mpc \in {"stop_check", "stop_nil", "stop_close"}
    /\ CASE mpc = "stop_check" ->
               /\ mpc' = IF StopNotRunning THEN "evstop" ELSE "stop_nil"
               /\ UNCHANGED <<procVars, svcVars>>
         [] mpc = "stop_nil" ->
               /\ StopReleaseTicker
               /\ mpc' = "stop_close"
               /\ UNCHANGED <<tickC, stopClosed, lightStates, lastRefresh>>
         [] OTHER ->
               /\ StopCloseChannel
               /\ mpc' = "evstop"
               /\ UNCHANGED <<ticker, tickerActive, tickC, lightStates, lastRefresh>>
    /\ UNCHANGED <<envVars, loopVars, sigPending, stopChnClosed, viaSignal, coordVars,
                   drvVars, obsVars, storeVars, fileVars, cfgLights, refreshedTick, overlap>>

\* app.go:78 with event-bus.go:99-108: a.eventService.Stop()
MainEventStop ==
    /\ Running /\ mpc = "evstop"
    /\ EventStop
    /\ mpc' = "return"
    /\ UNCHANGED <<procVars, envVars, svcVars, loopVars, sigPending, stopChnClosed,
                   viaSignal, cpc, cidx, cfailed, cprog, backlog, openConns,
                   saotlCalls, stopSends, listenerSet, drvVars, obsVars, storeVars, fileVars, cfgLights, refreshedTick, overlap>>

\* app.go:71 with main, lines 26-29: Run returns nil, main returns, the process ends
MainReturn ==
    /\ Running /\ mpc = "return"
    /\ mpc' = "returned"
    /\ proc' = "exited"
    /\ UNCHANGED <<crashCause, envVars, svcVars, loopVars, sigPending, stopChnClosed,
                   viaSignal, coordVars, drvVars, obsVars, storeVars, fileVars, cfgLights, refreshedTick, overlap>>

\* ------------------------------------------- ExternalEventService.Start loop
\* event-bus.go:37-41 and 58: the deferred calls of the accept goroutine
CoordDeferred ==
    /\ openConns' = 0
    /\ listenerOpen' = FALSE
    /\ sockFile' = FALSE

\* C4 mutant: the accept loop goes on after a serviced shutdown payload
AfterShutdownServiced_Continue == "accept"

\* event-bus.go:74: what follows a serviced shutdown payload
AfterShutdownServiced == "return"

\* event-bus.go:44: Accept hands over the oldest waiting connection
CoordAccept ==
    /\ Running /\ cpc = "accept" /\ listenerOpen /\ backlog # <<>>
    /\ openConns < MaxOpen
    /\ cpc' = "read"
    /\ openConns' = openConns + 1
    /\ UNCHANGED <<procVars, envVars, svcVars, loopVars, mainVars, cidx, cfailed, cprog,
                   listenerOpen, sockFile, backlog, saotlCalls, stopSends, listenerSet, drvVars, obsVars, storeVars, fileVars, cfgLights, refreshedTick>>
    /\ HistStep

\* event-bus.go:45-49: Accept fails with net.ErrClosed, the goroutine returns
CoordAcceptClosed ==
    /\ Running /\ cpc = "accept" /\ ~listenerOpen
    /\ cpc' = "return"
    /\ UNCHANGED <<procVars, envVars, svcVars, loopVars, mainVars, cidx, cfailed, cprog,
                   listenerOpen, sockFile, backlog, openConns, saotlCalls,
                   stopSends, listenerSet, drvVars, obsVars, storeVars, fileVars, cfgLights, refreshedTick>>
    /\ HistStep

\* event-bus.go:57-62 and 75-77: Read returns what the client wrote; the shutdown
\* payload calls StopAndTurnOffLights, anything else goes back to Accept with the
\* connection left to the deferred Close; a client that has written nothing and
\* keeps its connection open leaves Read blocked
CoordRead ==
    /\ Running /\ cpc = "read" /\ Head(backlog) # "silent"
    /\ backlog' = Tail(backlog)
    /\ IF Head(backlog) = EVENT_TYPE_SHUTDOWN
       THEN /\ cpc' = "stop_check"
            /\ saotlCalls' = saotlCalls + 1
       ELSE /\ cpc' = "accept"
            /\ UNCHANGED saotlCalls
    /\ UNCHANGED <<procVars, envVars, svcVars, loopVars, mainVars, cidx, cfailed, cprog,
                   listenerOpen, sockFile, openConns, stopSends, listenerSet, drvVars, obsVars, storeVars, fileVars, cfgLights, refreshedTick>>
    /\ HistStep

\* event-bus.go:62 with service.go:138 and 143-156: the Stop() of
\* StopAndTurnOffLights; a panic unwinds the goroutine through its deferred calls
CoordLightStop ==
    /\ Running /\ cpc \in {"stop_check", "stop_nil", "stop_close"}
    /\ CASE cpc = "stop_check" ->
               /\ cpc' = IF StopNotRunning THEN "pass" ELSE "stop_nil"
               /\ cprog' = IF StopNotRunning THEN 1 ELSE cprog
               /\ UNCHANGED <<procVars, svcVars, openConns, listenerOpen, sockFile>>
         [] cpc = "stop_nil" ->
               /\ StopReleaseTicker
               /\ IF proc' = "crashed"
                  THEN cpc' = "done" /\ CoordDeferred
                  ELSE cpc' = "stop_close" /\ UNCHANGED <<openConns, listenerOpen, sockFile>>
               /\ UNCHANGED <<tickC, stopClosed, lightStates, lastRefresh, cprog>>
         [] OTHER ->
               /\ StopCloseChannel
               /\ IF stopClosed
                  THEN cpc' = "done" /\ CoordDeferred /\ UNCHANGED cprog
                  ELSE /\ cpc' = "pass"
                       /\ cprog' = 1
                       /\ UNCHANGED <<openConns, listenerOpen, sockFile>>
               /\ UNCHANGED <<ticker, tickerActive, tickC, lightStates, lastRefresh>>
    /\ cidx' = 1
    /\ cfailed' = FALSE
    /\ UNCHANGED <<envVars, loopVars, mainVars, backlog, saotlCalls, stopSends, listenerSet,
                   drvVars, obsVars, storeVars, fileVars, cfgLights, refreshedTick>>
    /\ HistStep

\* service.go:139 with 91-122: one light of StopAndTurnOffLights' setLightsState(false)
CoordPass ==
    /\ Running /\ cpc = "pass"
    /\ \E ok \in BOOLEAN :
          /\ SetLightStep(cidx, FALSE, ok)
          /\ cfailed' = (cfailed \/ (~SkipLight(cidx, FALSE) /\ ~ok))
    /\ CASE proc' = "crashed" ->
               /\ cpc' = "done" /\ CoordDeferred
               /\ UNCHANGED <<cidx, cprog>>
         [] proc' # "crashed" /\ cidx < NLights ->
               /\ cidx' = cidx + 1
               /\ UNCHANGED <<cpc, cprog, listenerOpen, sockFile, openConns>>
         [] OTHER ->
               /\ cidx' = 1 /\ cpc' = "send" /\ cprog' = 2
               /\ UNCHANGED <<listenerOpen, sockFile, openConns>>
    /\ UNCHANGED <<now, ticker, tickerActive, tickC, stopClosed, lastRefresh,
                   loopVars, mainVars, backlog,
                   saotlCalls, stopSends, listenerSet, drvVars, recording, clientResult, storeVars, fileVars, cfgLights, refreshedTick>>
    /\ HistStep

\* event-bus.go:67-69 with app.go:60-62: the send on the unbuffered stop channel
\* completes when the main flow receives in its select
CoordSendMainRecv ==
    /\ Running /\ cpc = "send" /\ mpc = "select" /\ ~stopChnClosed
    /\ cpc' = AfterShutdownServiced
    /\ cprog' = 3
    /\ stopSends' = stopSends + 1
    /\ mpc' = "close"
    /\ UNCHANGED <<procVars, envVars, svcVars, loopVars, sigPending, stopChnClosed,
                   viaSignal, cidx, cfailed, listenerOpen, sockFile, backlog, openConns,
                   saotlCalls, listenerSet, drvVars, obsVars, storeVars, fileVars, cfgLights, refreshedTick>>
    /\ HistStep

\* event-bus.go:68: the stop channel was closed by app.go:67; the send panics and
\* the goroutine unwinds through its deferred calls
CoordSendClosed ==
    /\ Running /\ cpc = "send" /\ stopChnClosed
    /\ Crash("send_closed")
    /\ cpc' = "done"
    /\ CoordDeferred
    /\ UNCHANGED <<envVars, svcVars, loopVars, mainVars, cidx, cfailed, cprog, backlog,
                   saotlCalls, stopSends, listenerSet, drvVars, obsVars, storeVars, fileVars, cfgLights, refreshedTick>>
    /\ HistStep

\* event-bus.go:37-41 and 58: the goroutine returns; the deferred calls close the
\* connections and the listener and remove the socket file
CoordExit ==
    /\ Running /\ cpc = "return"
    /\ cpc' = "done"
    /\ CoordDeferred
    /\ UNCHANGED <<procVars, envVars, svcVars, loopVars, mainVars, cidx, cfailed, cprog,
                   backlog, saotlCalls, stopSends, listenerSet, drvVars, obsVars, storeVars, fileVars, cfgLights, refreshedTick>>
    /\ HistStep

\* --------------------------------------------------------------- environment
\* time passes
ClockAdvance ==
    /\ Running /\ now < MaxTime
    /\ now' = now + 1
    /\ UNCHANGED <<procVars, bridgeOn, svcVars, loopVars, mainVars, coordVars, drvVars, obsVars, storeVars, fileVars, cfgLights, refreshedTick,
                   overlap>>

\* service.go:42: time.NewTicker(1 * time.Second); a running ticker puts a tick
\* into its channel of capacity 1 and drops it when the channel is full
TickerFire(k) ==
    /\ Running /\ k \in tickerActive /\ k \notin tickC
    /\ tickC' = tickC \cup {k}
    /\ UNCHANGED <<procVars, envVars, ticker, tickerActive, stopClosed, lightStates,
                   lastRefresh, loopVars, mainVars, coordVars, drvVars, obsVars, storeVars, fileVars, cfgLights, refreshedTick, overlap>>

\* a light is switched by somebody else (wall switch, another controller)
OutOfBandToggle(l) ==
    /\ Running
    /\ bridgeOn' = [bridgeOn EXCEPT ![l] = ~bridgeOn[l]]
    /\ overlap' = (overlap \/ CoordInShutdown)
    /\ UNCHANGED <<procVars, now, svcVars, loopVars, mainVars, coordVars, drvVars, obsVars, storeVars, fileVars, cfgLights, refreshedTick>>

\* a light is switched by somebody else while no loop task is inside a tick
ToggleBetweenTicks(l) ==
    /\ \A k \in Loops : lpc[k] \notin {"refresh", "pass"}
    /\ OutOfBandToggle(l)

\* app.go:51-52: SIGINT/SIGTERM is delivered to signalChan (capacity 1, a signal
\* is dropped when it is full) while the main flow waits in its select; signals
\* that arrive after the main flow has left the select are not followed
OsSignal ==
    /\ Running /\ mpc = "select" /\ ~sigPending
    /\ sigPending' = TRUE
    /\ UNCHANGED <<procVars, envVars, svcVars, loopVars, mpc, stopChnClosed, viaSignal,
                   coordVars, drvVars, obsVars, storeVars, fileVars, cfgLights, refreshedTick, overlap>>

\* event-bus.go:84-97 (signalShutdown) and any other local client: Dial reaches
\* the listening socket, the payload is written and waits for Accept/Read
ClientConnectUpTo(p, waiting) ==
    /\ Running /\ listenerOpen /\ Len(backlog) < waiting
    /\ backlog' = Append(backlog, p)
    /\ UNCHANGED <<procVars, envVars, svcVars, loopVars, mainVars, cpc, cidx, cfailed, cprog,
                   listenerOpen, sockFile, openConns, saotlCalls, stopSends, listenerSet, drvVars, obsVars, storeVars, fileVars, cfgLights, refreshedTick, overlap>>

ClientConnect(p) == ClientConnectUpTo(p, MaxBacklog)

\* a coordinator is accepting connections on the socket path: its process lives
\* and its listener is open (a process ended by a panic leaves the socket file
\* behind with nobody listening)
Listening == Running /\ listenerOpen

\* C15 mutant: Dial always connects
DialFails_Never == FALSE

\* event-bus.go:85-88: net.Dial fails when the path does not exist or nobody
\* listens on it
DialFails == ~Listening

\* event-bus.go:84-97: ExternalEventService.StopAndTurnOffLights on the client
\* side, run by another process (main, lines 14-19) at any time. Dial fails: the
\* error is returned. Write fails: the error is returned and the deferred Close
\* ends a connection without data, on which the server reads zero bytes (not the
\* shutdown payload, the branch of any other payload). Write succeeds: the
\* payload waits for Accept/Read and nil is returned.
SignalShutdown ==
    /\ IF DialFails
       THEN clientResult' = "error" /\ UNCHANGED backlog
       ELSE /\ Len(backlog) < MaxBacklog
            /\ \E written \in BOOLEAN :
                  /\ backlog' = Append(backlog, IF written THEN EVENT_TYPE_SHUTDOWN ELSE "other")
                  /\ clientResult' = IF written THEN "nil" ELSE "error"
    /\ UNCHANGED <<procVars, envVars, svcVars, loopVars, mainVars, cpc, cidx, cfailed, cprog,
                   listenerOpen, sockFile, openConns, saotlCalls, stopSends, listenerSet,
                   drvVars, cmdLog, recording, storeVars, fileVars, cfgLights, refreshedTick, overlap>>

\* service.go:96-128: s.lightStates is a plain map; the runtime ends the process
\* when it detects a map access concurrent with a map write
ConcurrentMapFault ==
    /\ Running /\ CacheShared
    /\ Crash("concurrent_map")
    /\ UNCHANGED <<envVars, svcVars, loopVars, mainVars, coordVars, drvVars, obsVars, storeVars, fileVars, cfgLights, refreshedTick, overlap>>

\* ------------------------------------------------- lifecycle driver (SpecSvc)
\* a caller of Service.Start, service.go:34-46
DriverStart ==
    /\ Running /\ dpc = "idle" /\ startCalls + stopCalls < MaxCalls /\ CanStart
    /\ ServiceStart
    /\ startCalls' = startCalls + 1
    /\ UNCHANGED <<procVars, envVars, tickC, stopClosed, lightStates, lastRefresh, lidx,
                   ltarget, mainVars, coordVars, obsVars, storeVars, fileVars, cfgLights, refreshedTick, dpc, stopCalls, stopped>>
    /\ HistStep

\* a caller of Service.Stop, service.go:143
DriverStopCall ==
    /\ Running /\ dpc = "idle" /\ startCalls + stopCalls < MaxCalls
    /\ dpc' = "stop_check"
    /\ stopCalls' = stopCalls + 1
    /\ UNCHANGED <<procVars, envVars, svcVars, loopVars, mainVars, coordVars, obsVars, storeVars, fileVars, cfgLights, refreshedTick, startCalls,
                   stopped, overlap>>

\* service.go:143-156: Service.Stop on the caller's task
DriverStop ==
    /\ Running /\ dpc \in {"stop_check", "stop_nil", "stop_close"}
    /\ CASE dpc = "stop_check" ->
               /\ dpc' = IF StopNotRunning THEN "idle" ELSE "stop_nil"
               /\ UNCHANGED <<procVars, svcVars, stopped>>
         [] dpc = "stop_nil" ->
               /\ StopReleaseTicker
               /\ dpc' = "stop_close"
               /\ UNCHANGED <<tickC, stopClosed, lightStates, lastRefresh, stopped>>
         [] OTHER ->
               /\ StopCloseChannel
               /\ dpc' = "idle"
               /\ stopped' = TRUE
               /\ UNCHANGED <<ticker, tickerActive, tickC, lightStates, lastRefresh>>
    /\ UNCHANGED <<envVars, loopVars, mainVars, coordVars, obsVars, storeVars, fileVars, cfgLights, refreshedTick, startCalls, stopCalls, overlap>>

\* ---------------------------------------------- device_registration.Service
\* device_registration/service.go:32 and 61: fmt.Sprintf("%s#%s", bridgeID, name)
ApiKeyIdentifier(bridge, name) == <<bridge, "#", name>>
KeyIds == {ApiKeyIdentifier(BridgeID, n) : n \in Names}

\* hue_client RegisterDevice with device_registration/service.go:45-57: what the
\* registration call brings back: a transport error, an answer with an error
\* (link button not pressed, or another Hue error), an answer with success and a
\* username, or an answer with neither (or an empty list), which the code
\* dereferences
BridgeAnswers ==
    {[kind |-> k, username |-> NoKey] :
        k \in {"call_error", "link_button", "hue_error", "malformed"}}
    \cup {[kind |-> "success", username |-> u] : u \in Usernames}

\* C16 mutant: the key is stored whatever the bridge answered
AnswerIsSuccess_Always(answer) == TRUE

\* device_registration/service.go:46-57: neither err nor registerResponse.Error
AnswerIsSuccess(answer) == answer.kind = "success"

\* device_registration/service.go:46-57 and 59: what RegisterDevice returns when
\* the answer is no success
ReturnOnAnswer(answer) ==
    IF answer.kind \in {"call_error", "link_button", "hue_error"}
    THEN answer.kind
    ELSE "panic"

\* no registration call was made, no Set was made
NoAnswer == [kind |-> "none", username |-> NoKey]
RegIdle == [name |-> "", ret |-> "none", answer |-> NoAnswer, set |-> "none"]

\* device_registration/service.go:25-70: RegisterDevice(name). The error of
\* apiKeyStore.Get is dropped (line 33): a failed Get reads as no key. Set may
\* fail, with the key kept in the store's memory or not (api_key.go:149-158).
RegisterDevice(name) ==
    /\ Running
    /\ \E getOk \in BOOLEAN :
          LET key == IF getOk THEN keyStore[ApiKeyIdentifier(BridgeID, name)] ELSE NoKey IN
          IF key # NoKey
          THEN /\ regLast' = [name |-> name, ret |-> "nil", answer |-> NoAnswer,
                               set |-> "none"]
               /\ UNCHANGED keyStore
          ELSE \E answer \in BridgeAnswers :
                  IF AnswerIsSuccess(answer)
                  THEN \E setOk, kept \in BOOLEAN :
                          /\ keyStore' =
                                IF setOk \/ kept
                                THEN [keyStore EXCEPT
                                        ![ApiKeyIdentifier(BridgeID, clientDevice)] = answer.username]
                                ELSE keyStore
                          /\ regLast' = [name |-> name, answer |-> answer,
                                         set |-> IF setOk THEN "ok" ELSE "failed",
                                         ret |-> IF setOk THEN "nil" ELSE "store_error"]
                  ELSE /\ regLast' = [name |-> name, answer |-> answer, set |-> "none",
                                      ret |-> ReturnOnAnswer(answer)]
                       /\ UNCHANGED keyStore
    /\ UNCHANGED <<procVars, envVars, svcVars, loopVars, mainVars, coordVars, drvVars,
                   obsVars, clientDevice, fileVars, cfgLights, refreshedTick, overlap>>

\* ------------------------------------------------------- FileAPIKeyStore
\* make(map[string]string) (api_key.go:67): no identifier has a key
EmptyMap == [id \in KeyIds |-> NoKey]
NoFile == [exists |-> FALSE, keys |-> EmptyMap]

\* api_key.go:89: time.Since(s.lastLoadTimestamp) < s.refreshInterval is false
LoadDue(i) == now - lastLoadTimestamp[i] >= StoreRefreshInterval

\* C18 mutant: Decode replaces the map instead of filling it
Decode_KeepMemory(mem, file) == mem

\* api_key.go:107-108: json Decode into the existing map: the entries of the file
\* are written over the map, the entries the file does not have stay
Decode(mem, file) == [id \in KeyIds |-> IF file[id] # NoKey THEN file[id] ELSE mem[id]]

\* api_key.go:87-116: does load() read the file
LoadReads(i) == LoadDue(i) /\ storeFile.exists

\* api_key.go:87-116: the map and the timestamp of instance i after a load()
\* that returned nil
LoadedMap(i) == IF LoadReads(i) THEN Decode(store[i], storeFile.keys) ELSE store[i]
LoadedStamp(i) == IF LoadReads(i) THEN now ELSE lastLoadTimestamp[i]

\* api_key.go:97-103, 108-110: load() fails only when it reads the file
LoadOutcomes(i) == IF LoadReads(i) THEN {"nil", "io_error"} ELSE {"nil"}

\* api_key.go:33-40: InMemoryAPIKeyStore.Get
MemGetError(mem, id) == IF mem[id] = NoKey THEN "ErrMissingAPIKey" ELSE "nil"

StoreFrame ==
    UNCHANGED <<procVars, envVars, svcVars, loopVars, mainVars, coordVars, drvVars,
                obsVars, storeVars, cfgLights, refreshedTick, overlap>>

\* api_key.go:141-147
StoreGet(i, id) ==
    /\ Running
    /\ \E loaded \in LoadOutcomes(i) :
          IF loaded # "nil"
          THEN /\ storeLast' = [op |-> "Get", inst |-> i, id |-> id, key |-> NoKey,
                                err |-> loaded]
               /\ UNCHANGED <<store, lastLoadTimestamp>>
          ELSE /\ store' = [store EXCEPT ![i] = LoadedMap(i)]
               /\ lastLoadTimestamp' = [lastLoadTimestamp EXCEPT ![i] = LoadedStamp(i)]
               /\ storeLast' = [op |-> "Get", inst |-> i, id |-> id, key |-> NoKey,
                                err |-> MemGetError(LoadedMap(i), id)]
    /\ UNCHANGED storeFile
    /\ StoreFrame

\* api_key.go:149-158 (Set) and 160-169 (Remove, key = NoKey): load, change the
\* map, save; save (api_key.go:118-139) writes the whole map, or fails at opening
\* the file and leaves it as it is
StoreWrite(op, i, id, key) ==
    /\ Running
    /\ \E loaded \in LoadOutcomes(i) :
          IF loaded # "nil"
          THEN /\ storeLast' = [op |-> op, inst |-> i, id |-> id, key |-> key,
                                err |-> loaded]
               /\ UNCHANGED <<store, lastLoadTimestamp, storeFile>>
          ELSE /\ store' = [store EXCEPT ![i] = [LoadedMap(i) EXCEPT ![id] = key]]
               /\ lastLoadTimestamp' = [lastLoadTimestamp EXCEPT ![i] = LoadedStamp(i)]
               /\ \E saved \in {"nil", "io_error"} :
                     /\ storeFile' = IF saved = "nil"
                                     THEN [exists |-> TRUE, keys |-> store'[i]]
                                     ELSE storeFile
                     /\ storeLast' = [op |-> op, inst |-> i, id |-> id, key |-> key,
                                      err |-> saved]
    /\ StoreFrame

StoreSet(i, id, key) == StoreWrite("Set", i, id, key)

StoreRemove(i, id) == StoreWrite("Remove", i, id, NoKey)

\* api_key.go:63-84: NewFileAPIKeyStore on the path: an empty map, the zero
\* timestamp, then load()
NewFileAPIKeyStore(i) ==
    /\ Running
    /\ \E loaded \in (IF storeFile.exists THEN {"nil", "io_error"} ELSE {"nil"}) :
          /\ store' = [store EXCEPT ![i] =
                IF loaded = "nil" /\ storeFile.exists
                THEN Decode(EmptyMap, storeFile.keys) ELSE EmptyMap]
          /\ lastLoadTimestamp' = [lastLoadTimestamp EXCEPT ![i] =
                IF loaded = "nil" /\ storeFile.exists THEN now ELSE StoreZeroTime]
          /\ storeLast' = [op |-> "New", inst |-> i, id |-> CHOOSE id \in KeyIds : TRUE,
                           key |-> NoKey, err |-> loaded]
    /\ UNCHANGED storeFile
    /\ StoreFrame

\* time passes between two calls on the stores: just less than a refresh
\* interval, or a whole one
StoreTimePasses ==
    /\ Running
    /\ \E d \in {StoreRefreshInterval - 1, StoreRefreshInterval} :
          /\ now + d <= MaxTime
          /\ now' = now + d
    /\ UNCHANGED <<procVars, bridgeOn, svcVars, loopVars, mainVars, coordVars, drvVars,
                   obsVars, storeVars, fileVars, cfgLights, refreshedTick, overlap>>

\* ------------------------------------------- coordinator lifecycle (SpecEv)
\* a caller of ExternalEventService.Start, event-bus.go:28-82; the model follows
\* one accept goroutine, so Start is called until it has succeeded once
EvDriverStart ==
    /\ Running /\ ~listenerSet
    /\ EventStart
    /\ UNCHANGED <<procVars, envVars, svcVars, loopVars, mainVars, cidx, cfailed, cprog,
                   backlog, openConns, saotlCalls, stopSends, drvVars, obsVars, storeVars, fileVars, cfgLights, refreshedTick, overlap>>

\* a caller of ExternalEventService.Stop, event-bus.go:99-108, at any time and any
\* number of times
EvDriverStop ==
    /\ Running
    /\ EventStop
    /\ UNCHANGED <<procVars, envVars, svcVars, loopVars, mainVars, cpc, cidx, cfailed,
                   cprog, backlog, openConns, saotlCalls, stopSends, listenerSet,
                   drvVars, obsVars, storeVars, fileVars, cfgLights, refreshedTick, overlap>>

\* ------------------------------------------------------------ specifications
\* light_automation.NewService (service.go:23-32), events.NewExternalEventService
\* (event-bus.go:20-26) and app.Bootstrap (bootstrap.go:39-58)
InitCommon ==
    /\ proc = "running" /\ crashCause = "none"
    /\ bridgeOn \in [Lights -> BOOLEAN]
    /\ ticker = 0 /\ tickerActive = {} /\ tickC = {} /\ stopClosed = FALSE
    /\ lightStates = [l \in Lights |-> FALSE]
    /\ lastRefresh = ZeroTime
    /\ lpc = [k \in Loops |-> "none"]
    /\ lidx = [k \in Loops |-> 1]
    /\ ltarget = [k \in Loops |-> FALSE]
    /\ sigPending = FALSE /\ stopChnClosed = FALSE /\ viaSignal = FALSE
    /\ cpc = "none" /\ cidx = 1 /\ cfailed = FALSE /\ cprog = 0
    /\ listenerOpen = FALSE /\ listenerSet = FALSE
    /\ backlog = <<>> /\ openConns = 0
    /\ saotlCalls = 0 /\ stopSends = 0
    /\ startCalls = 0 /\ stopCalls = 0 /\ stopped = FALSE
    /\ overlap = FALSE
    /\ cmdLog = <<>>
    /\ clientResult = "none"
    /\ refreshedTick = {}

\* the lights of the configuration, each given by ID and by name
ConfigById == cfgLights = [l \in Lights |-> [ID |-> TRUE, Name |-> TRUE]]

\* no file store is followed: no file, the instances new
FilesIdle ==
    /\ storeFile = NoFile
    /\ store = [i \in Stores |-> EmptyMap]
    /\ lastLoadTimestamp = [i \in Stores |-> StoreZeroTime]
    /\ storeLast = [op |-> "none", inst |-> 1, id |-> CHOOSE id \in KeyIds : TRUE,
                    key |-> NoKey, err |-> "nil"]

\* no registration is under way: the device is registered (app.go:38 has returned
\* nil) and the key store is not followed
StoresIdle ==
    /\ keyStore = [id \in KeyIds |-> NoKey]
    /\ clientDevice = "dev-a"
    /\ regLast = RegIdle
    /\ FilesIdle

\* the process as main runs it, started by night or by day; the shutdown
\* handshake is followed within one unit of the clock
Init ==
    /\ InitCommon
    /\ StoresIdle
    /\ ConfigById
    /\ now \in {Sunrise - 1, Sunrise}
    /\ mpc = "startLight"
    /\ dpc = "none"
    /\ sockFile \in BOOLEAN
    /\ recording = FALSE

\* one Service under any sequence of Start and Stop calls, started by night or
\* by day; SpecSvc follows it within one unit of the clock, SpecDay through the
\* day into the next night
InitSvc ==
    /\ InitCommon
    /\ StoresIdle
    /\ ConfigById
    /\ now \in {Sunrise - 1, Sunrise}
    /\ mpc = "none"
    /\ dpc = "idle"
    /\ sockFile = FALSE
    /\ recording = FALSE

\* one Service with a recording Light Controller, started and never stopped,
\* ticking within one window (the clock stands: all ticks by night, or all by day)
InitTicks ==
    /\ InitCommon
    /\ StoresIdle
    /\ ConfigById
    /\ now \in {Sunrise - 1, Sunrise}
    /\ mpc = "none"
    /\ dpc = "idle"
    /\ sockFile = FALSE
    /\ recording = TRUE

\* one coordinator under Start and Stop calls, with or without a socket file left
\* behind by an earlier process
InitEv ==
    /\ InitCommon
    /\ StoresIdle
    /\ ConfigById
    /\ now = Sunrise
    /\ mpc = "none"
    /\ dpc = "none"
    /\ sockFile \in BOOLEAN
    /\ recording = FALSE

\* a registration service over any key store content, its client named like the
\* device to register or not
InitReg ==
    /\ InitCommon
    /\ now = Sunrise
    /\ mpc = "none"
    /\ dpc = "none"
    /\ sockFile = FALSE
    /\ recording = FALSE
    /\ keyStore \in [KeyIds -> Usernames \cup {NoKey}]
    /\ clientDevice \in Names
    /\ regLast = RegIdle
    /\ FilesIdle
    /\ ConfigById

\* README.md:403-420 (config.go's validate; the function is listed there): a light
\* is rejected only when both ID and Name are nil. The checks of the receiver and
\* of the coordinates (README.md:404-411) do not concern the lights.
validate(lights) == \A l \in Lights : ~(~lights[l].ID /\ ~lights[l].Name)

\* config.go:13-16: every shape of Config.Lights
LightConfigs == [Lights -> [ID : BOOLEAN, Name : BOOLEAN]]

\* one Service over any configuration that validate accepts, started by night or
\* by day
InitConfig ==
    /\ InitCommon
    /\ StoresIdle
    /\ cfgLights \in {c \in LightConfigs : validate(c)}
    /\ now \in {Sunrise - 1, Sunrise}
    /\ mpc = "none"
    /\ dpc = "idle"
    /\ sockFile = FALSE
    /\ recording = FALSE

\* the FileAPIKeyStore instances, new on a path with no file
InitStore ==
    /\ InitCommon
    /\ StoresIdle
    /\ ConfigById
    /\ bridgeOn = [l \in Lights |-> FALSE]
    /\ now = 0
    /\ mpc = "none"
    /\ dpc = "none"
    /\ sockFile = FALSE
    /\ recording = FALSE

Environment ==
    \/ \E k \in Loops : TickerFire(k)
    \/ \E l \in Lights : OutOfBandToggle(l)

Next ==
    \/ MainStartLight
    \/ MainStartEvents
    \/ MainRecvSignal
    \/ MainCloseChannels
    \/ MainLightStop
    \/ MainEventStop
    \/ MainReturn
    \/ CoordAccept
    \/ CoordAcceptClosed
    \/ CoordRead
    \/ CoordLightStop
    \/ CoordPass
    \/ CoordSendMainRecv
    \/ CoordSendClosed
    \/ CoordExit
    \/ \E k \in Loops : LoopStep(k)
    \/ OsSignal
    \/ \E p \in Payloads : ClientConnect(p)
    \/ ConcurrentMapFault
    \/ Environment

NextSvc ==
    \/ DriverStart
    \/ DriverStopCall
    \/ DriverStop
    \/ \E k \in Loops : LoopStep(k)
    \/ Environment

\* the same Service while time passes
NextDay ==
    \/ NextSvc
    \/ ClockAdvance

\* the Service started and left running: Start calls, the loop task, the ticker
\* and the bridge
NextTicks ==
    \/ DriverStart
    \/ \E k \in Loops : LoopEntry(k)
    \/ \E k \in Loops : LoopRefresh(k)
    \/ \E k \in Loops : LoopSelectTick(k)
    \/ \E k \in Loops : LoopPass(k)
    \/ Environment

\* the coordinator with clients that send something else than the shutdown
\* payload, or nothing
NextEv ==
    \/ EvDriverStart
    \/ EvDriverStop
    \/ \E p \in Payloads \ {EVENT_TYPE_SHUTDOWN} : ClientConnect(p)
    \/ CoordAccept
    \/ CoordAcceptClosed
    \/ CoordRead
    \/ CoordExit

\* the process together with the --shutdown client
NextClient ==
    \/ Next
    \/ SignalShutdown

NextStore ==
    \/ \E i \in Stores, id \in KeyIds :
          \/ StoreGet(i, id)
          \/ StoreRemove(i, id)
          \/ \E key \in Usernames : StoreSet(i, id, key)
    \/ \E i \in Stores : NewFileAPIKeyStore(i)
    \/ StoreTimePasses

NextReg == \E name \in Names : RegisterDevice(name)

\* a coordinator that is started and not stopped, and clients that connect while
\* earlier connections wait or are being read
NextQueue ==
    \/ EvDriverStart
    \/ \E p \in Payloads : ClientConnectUpTo(p, MaxQueue)
    \/ CoordAccept
    \/ CoordRead

\* the Service started and left running while time passes, every fetch and every
\* command succeeding, the lights switched out of band between the ticks
NextResync ==
    \/ DriverStart
    \/ \E k \in Loops : LoopEntry(k)
    \/ \E k \in Loops : LoopRefreshWith(k, "ok")
    \/ \E k \in Loops : LoopSelectTick(k)
    \/ \E k \in Loops : LoopPassWith(k, TRUE)
    \/ \E k \in Loops : TickerFire(k)
    \/ \E l \in Lights : ToggleBetweenTicks(l)
    \/ ClockAdvance

\* the Service started and left running while time passes
NextCadence ==
    \/ NextTicks
    \/ ClockAdvance

Spec == Init /\ [][Next]_vars

SpecSvc == InitSvc /\ [][NextSvc]_vars

SpecDay == InitSvc /\ [][NextDay]_vars

SpecTicks == InitTicks /\ [][NextTicks]_vars

SpecClient == Init /\ [][NextClient]_vars

SpecCadence == InitSvc /\ [][NextCadence]_vars

SpecConfig == InitConfig /\ [][NextCadence]_vars

SpecResync == InitSvc /\ [][NextResync]_vars

\* the accept goroutine is not held back forever when it can accept or read
SpecQueue == InitEv /\ [][NextQueue]_vars /\ WF_vars(CoordAccept \/ CoordRead)

SpecReg == InitReg /\ [][NextReg]_vars

SpecStore == InitStore /\ [][NextStore]_vars

\* the steps of the main flow (App.Run), of the coordinator's accept goroutine and
\* of the loop goroutines
MainStep ==
    \/ MainStartLight \/ MainStartEvents \/ MainRecvSignal \/ MainCloseChannels
    \/ MainLightStop \/ MainEventStop \/ MainReturn
CoordStep ==
    \/ CoordAccept \/ CoordAcceptClosed \/ CoordRead \/ CoordLightStop \/ CoordPass
    \/ CoordSendMainRecv \/ CoordSendClosed \/ CoordExit

\* the process under the Go scheduler: a goroutine that can take a step is not
\* held back forever; nothing is assumed of signals, clients, the ticker or the
\* bridge
SpecLive ==
    /\ Init /\ [][Next]_vars
    /\ WF_vars(MainStep)
    /\ WF_vars(CoordStep)
    /\ \A k \in Loops : WF_vars(LoopStep(k))

\* the coordinator's goroutine scheduled fairly; nothing is assumed of the callers
\* and the clients
SpecEv == InitEv /\ [][NextEv]_vars /\ WF_vars(CoordStep)

\* ==================================================================== claims
LoopStopped == ticker = 0 /\ stopClosed
LoopIdle(k) == ~LoopInPass(k)
LiveLoops == {k \in Loops : lpc[k] \notin {"none", "done"}}

\* the turn-off pass of StopAndTurnOffLights has handled light l (issued the
\* command or skipped the light): nothing else on a shutdown path issues a
\* turn-off command (app.go:74-81 calls Stop, not StopAndTurnOffLights)
ShutdownPassReached(l) == cprog >= 2 \/ (cpc = "pass" /\ cidx > l)

\* C1: when the process ends through an OS signal and no shutdown payload was
\* read, then at the return of App.Run the loop is stopped and the turn-off of the
\* shutdown path has reached every configured light that is on.
C1_SignalPathForcesLightsOff ==
    (proc = "exited" /\ mpc = "returned" /\ viaSignal /\ saotlCalls = 0)
        => (LoopStopped /\ \A l \in Lights : bridgeOn[l] => ShutdownPassReached(l))

\* C2: once the coordinator has read a shutdown payload, App.Run does not return
\* before the turn-off pass over the configured lights has finished.
C2_NoReturnBeforePassDone ==
    (proc = "exited" /\ saotlCalls >= 1) => cprog >= 2

\* C3: when StopAndTurnOffLights returns, every command it issued has succeeded,
\* no loop task was inside a pass during the call and nobody else switched a light
\* during the call, every light is off at the bridge.
C3_AllLightsOffAfterShutdownPass ==
    [][(cpc = "pass" /\ cpc' = "send" /\ ~cfailed' /\ ~overlap')
          => \A l \in Lights : ~bridgeOn'[l]]_vars

\* C4: the coordinator calls StopAndTurnOffLights at most once and sends on the
\* stop channel at most once, however many clients signal a shutdown; once it has
\* serviced a shutdown payload it is returning or has returned, never again at
\* Accept or Read, and it has not panicked.
C4_OneShutdownServiced ==
    /\ saotlCalls <= 1
    /\ stopSends <= 1
    /\ stopSends = 1 => (cpc \in {"return", "done"} /\ cprog = 3
                         /\ crashCause \notin {"send_closed", "double_close"})

\* C4 witness: two clients signalled a shutdown, the first was serviced, the
\* accept loop has exited and the second payload was never read.
C4_Witness ==
    /\ stopSends = 1 /\ saotlCalls = 1 /\ cpc = "done"
    /\ backlog = <<EVENT_TYPE_SHUTDOWN>>

\* C5: the accept loop of a coordinator that has read the shutdown payload exits
\* (listener closed, socket file removed by its deferred calls) only after the
\* stop of the loop, the turn-off pass and the send on the stop channel have been
\* completed, in this order.
C5_ExitOnlyAfterSequence ==
    (cpc = "done" /\ saotlCalls >= 1) => cprog = 3

\* C6: a Stop() called from another task never makes the loop task crash: it is
\* never ended by the nil ticker it reads in its select.
C6_LoopSurvivesStop == crashCause # "nil_ticker"

\* C7: once Stop() has returned on a running Service, no loop task of the
\* instance begins a refresh pass or a tick evaluation, whatever calls follow.
C7_NoLoopWorkAfterStop ==
    [][stopped => \A k \in Loops :
          ~(LoopIdle(k) /\ lpc'[k] \in {"refresh0", "refresh", "pass"})]_vars

\* C8: no sequence of Start() and Stop() calls on one Service closes the stop
\* channel twice.
C8_NoDoubleClose == crashCause # "double_close"

\* C9: after one or more Start() calls and no Stop(), exactly one tick-loop task
\* and one ticker exist, and at most one task is inside a tick evaluation.
C9_SingleLoopTask ==
    (startCalls >= 1 /\ stopCalls = 0)
        => /\ LiveLoops = {1}
           /\ tickerActive = {1}
           /\ ticker = 1

\* C9 witness: Start() was called twice, never Stop(), and the one loop task is
\* inside a tick's light pass.
C9_Witness == startCalls >= 2 /\ stopCalls = 0 /\ lpc[1] = "pass"

\* a step of loop k inside its light pass in which a command was issued for the
\* light at hand and failed: the cache differed from the target (no skip) and the
\* bridge, which differed from the target too, was left as it was
FailedCommandStep(k) ==
    /\ lpc[k] = "pass"
    /\ lidx'[k] # lidx[k] \/ lpc'[k] # lpc[k]
    /\ lightStates[lidx[k]] # ltarget[k]
    /\ bridgeOn[lidx[k]] # ltarget[k]
    /\ bridgeOn' = bridgeOn

\* C10: a tick's turn-on or turn-off command that fails leaves the light's cache
\* entry as it was.
C10_FailedCommandKeepsCache ==
    [][\A k \in Loops :
          FailedCommandStep(k) => lightStates'[lidx[k]] = lightStates[lidx[k]]]_vars

\* positions of a loop task that has left its for/select loop
LoopLeft(k) == lpc[k] \in {"dstop_check", "dstop_nil", "dstop_close", "done"}

\* C11: a loop task ends only because Stop() was called: it leaves its loop only
\* after a Stop() call, and no outcome of a controller call (the fetch that returns
\* no light included) crashes it.
C11_LoopEndsOnlyByStop ==
    /\ crashCause # "nil_light"
    /\ \A k \in Loops : LoopLeft(k) => stopCalls >= 1

\* every command the recorder holds was answered with success
AllCommandsOk(log) == \A i \in DOMAIN log : log[i].ok

\* the recorded commands of a run of ticks in one window: each carries the
\* window's target, the cache reads the target for its light, and the lights
\* appear in configuration order, none twice
OneCommandPerLight(log) ==
    /\ \A i \in DOMAIN log :
          /\ log[i].on = IsNight(now)
          /\ lightStates[log[i].light] = log[i].on
    /\ \A i, j \in DOMAIN log : i < j => log[i].light < log[j].light

\* loop k handles one light of its pass
PassStep(k) == lpc[k] = "pass" /\ (lidx'[k] # lidx[k] \/ lpc'[k] # lpc[k])

\* C12: over the ticks of one window, with every command succeeding and no
\* refresh changing the cache, a light whose cache differs from the window's
\* target receives one command for the target when the pass reaches it and its
\* cache then reads the target; a light whose cache reads the target receives
\* none; over the whole run each light is commanded at most once, in
\* configuration order.
C12_OneCommandPerWindow ==
    [][AllCommandsOk(cmdLog') =>
          /\ OneCommandPerLight(cmdLog)'
          /\ \A k \in Loops : PassStep(k) =>
                /\ lightStates'[lidx[k]] = ltarget[k]
                /\ IF lightStates[lidx[k]] # ltarget[k]
                   THEN /\ Len(cmdLog') = Len(cmdLog) + 1
                        /\ cmdLog'[Len(cmdLog')].light = lidx[k]
                        /\ cmdLog'[Len(cmdLog')].on = ltarget[k]
                   ELSE cmdLog' = cmdLog]_vars

\* C12 witness: every light was commanded once, all with success, and a later
\* tick of the same window is inside its pass.
C12_Witness ==
    /\ Len(cmdLog) = NLights /\ AllCommandsOk(cmdLog)
    /\ lpc[1] = "pass" /\ lidx[1] = NLights

\* C13: once the coordinator has read a shutdown payload, the stop notification
\* is eventually delivered to the main flow and App.Run returns.
C13_ShutdownReachesMain ==
    (saotlCalls >= 1) ~> (stopSends = 1 /\ mpc = "returned")

\* C14: after Stop() was called on a coordinator that had been started, the
\* accept loop eventually has exited with the listener closed and the socket
\* file removed, so that the path can be bound again.
C14_StopReleasesEndpoint ==
    (listenerSet /\ ~listenerOpen) ~> (cpc = "done" /\ ~listenerOpen /\ ~ListenFails)

\* the shutdown payloads waiting in the coordinator's queue
ShutdownsQueued(q) == Cardinality({i \in DOMAIN q : q[i] = EVENT_TYPE_SHUTDOWN})

\* C15: a signalShutdown call made while no coordinator listens returns an error
\* and changes nothing; a call that returns an error delivers no shutdown payload
\* and changes nothing of the loop, the lights or the coordinator; a call that
\* returns nil has delivered the payload and returns in the same step, with the
\* loop not yet stopped and no light touched by the server.
C15_ClientReturnsAfterWrite ==
    [][SignalShutdown =>
          /\ ~Listening => (clientResult' = "error" /\ backlog' = backlog)
          /\ clientResult' = "error" =>
                /\ ShutdownsQueued(backlog') = ShutdownsQueued(backlog)
                /\ UNCHANGED <<svcVars, bridgeOn, cpc, saotlCalls, listenerOpen, sockFile>>
          /\ clientResult' = "nil" =>
                /\ backlog' = Append(backlog, EVENT_TYPE_SHUTDOWN)
                /\ UNCHANGED <<svcVars, bridgeOn, cpc, saotlCalls>>]_vars

\* C15 witness: the client has returned nil while the server has not read the
\* payload: the loop still runs and a light is still on.
C15_Witness ==
    /\ clientResult = "nil" /\ saotlCalls = 0 /\ ticker # 0 /\ Running
    /\ backlog = <<EVENT_TYPE_SHUTDOWN>>
    /\ \E l \in Lights : bridgeOn[l]


\* a step of RegisterDevice, for any device name
RegisterStep == \E name \in Names : RegisterDevice(name)

\* C16: RegisterDevice changes the key store only when the bridge answered the
\* registration call with success, and when the store then took the key, the store
\* is the old one with the returned username under "<bridgeID>#<client device
\* name>" and the call returns nil; when the call failed or the bridge answered
\* with an error, RegisterDevice returns that error and the store is unchanged;
\* when Set failed it returns the store's error.
C16_StoresOnlyOnSuccess ==
    [][RegisterStep =>
          /\ keyStore' # keyStore => regLast'.answer.kind = "success"
          /\ regLast'.set = "ok" =>
                /\ regLast'.answer.kind = "success"
                /\ regLast'.ret = "nil"
                /\ keyStore' = [keyStore EXCEPT
                      ![ApiKeyIdentifier(BridgeID, clientDevice)] = regLast'.answer.username]
          /\ regLast'.answer.kind \in {"call_error", "link_button", "hue_error"} =>
                /\ regLast'.ret = regLast'.answer.kind
                /\ keyStore' = keyStore
          /\ regLast'.set = "failed" => regLast'.ret = "store_error"]_vars

\* a success stored under the client's name, a name other than the one registered
C16_Witness ==
    /\ regLast.set = "ok"
    /\ regLast.name # clientDevice
    /\ keyStore[ApiKeyIdentifier(BridgeID, clientDevice)] = regLast.answer.username
    /\ keyStore[ApiKeyIdentifier(BridgeID, regLast.name)] = NoKey


\* C17: in every RegisterDevice(name) step, a non-empty key held under
\* "<bridgeID>#<name>" makes the call return nil with no registration call and the
\* key store unchanged; with no key under that identifier the registration call is
\* made, whatever is stored for other devices; and the entries of the devices other
\* than name are the same after the call.
C17_AlreadyRegisteredSkips ==
    [][RegisterStep =>
          LET name == regLast'.name IN
          /\ keyStore[ApiKeyIdentifier(BridgeID, name)] # NoKey =>
                /\ regLast'.ret = "nil"
                /\ regLast'.answer = NoAnswer
                /\ keyStore' = keyStore
          /\ keyStore[ApiKeyIdentifier(BridgeID, name)] = NoKey =>
                regLast'.answer # NoAnswer
          /\ \A other \in Names \ {name} :
                keyStore'[ApiKeyIdentifier(BridgeID, other)]
                    = keyStore[ApiKeyIdentifier(BridgeID, other)]]_vars


\* a step that is the call op on an instance: every step of the stores but the
\* passing of time is a call, described by storeLast'
StoreCall(op) == now' = now /\ storeLast'.op = op

\* the call before this step was op on the same instance and identifier as the
\* call of this step, it returned nil, and only time has passed since
FollowsOwn(op) ==
    /\ storeLast.op = op /\ storeLast.err = "nil"
    /\ storeLast.inst = storeLast'.inst /\ storeLast.id = storeLast'.id

\* C18: a Set that returned nil leaves the key in the instance's map and in the
\* file; the next call, whatever time has passed, returns that key when it is a
\* Get on the same instance or a Get on a store newly created on the path; a Get
\* on any instance whose refresh interval has elapsed returns the key the file
\* holds; a Remove that returned nil leaves the file without the key, and the next
\* call, when it is a Get on the same instance, returns ErrMissingAPIKey.
C18_SetIsPersisted ==
    [][LET i == storeLast'.inst
           id == storeLast'.id
           ok == storeLast'.err = "nil" IN
       /\ StoreCall("Set") /\ ok =>
             /\ store'[i][id] = storeLast'.key
             /\ storeFile'.exists /\ storeFile'.keys[id] = storeLast'.key
       /\ StoreCall("Get") /\ FollowsOwn("Set") =>
             /\ storeLast'.err # "ErrMissingAPIKey"
             /\ ok => store'[i][id] = storeLast.key
       /\ StoreCall("New") /\ storeLast.op = "Set" /\ storeLast.err = "nil" /\ ok =>
             store'[i][storeLast.id] = storeLast.key
       /\ StoreCall("Get") /\ LoadDue(i) /\ storeFile.exists
             /\ storeFile.keys[id] # NoKey /\ ok =>
             store'[i][id] = storeFile.keys[id]
       /\ StoreCall("Remove") /\ ok =>
             /\ store'[i][id] = NoKey
             /\ storeFile'.exists /\ storeFile'.keys[id] = NoKey
       /\ StoreCall("Get") /\ FollowsOwn("Remove") =>
             storeLast'.err \in {"ErrMissingAPIKey", "io_error"}]_vars

\* instance 1 wrote the file a refresh interval ago and has not loaded since;
\* instance 2 has just read the file in a Get that returned the key of the file
C18_Witness ==
    /\ storeLast.op = "Get" /\ storeLast.inst = 2 /\ storeLast.err = "nil"
    /\ store[2][storeLast.id] = "user-2"
    /\ store[1][storeLast.id] = "user-2"
    /\ storeFile.keys[storeLast.id] = "user-2"
    /\ now = StoreRefreshInterval
    /\ lastLoadTimestamp[2] = now
    /\ lastLoadTimestamp[1] = 0

\* C19: in no reachable state is the coordinator inside the turn-off pass of
\* StopAndTurnOffLights while a tick loop is inside a refresh pass or a tick's light
\* pass, and the process never ends on a concurrent access to the cache map.
C19_CacheNeverShared == ~CacheShared /\ crashCause # "concurrent_map"


\* C20: in every interleaving of a terminate signal with a shutdown event, the
\* coordinator's send on the stop channel never meets a channel that App.Run has
\* closed: the process never ends on the panic of that send.
C20_NoSendOnClosedChannel == crashCause # "send_closed"

\* C21: in every interleaving of the callers of Service.Stop (App.Stop on the main
\* flow, StopAndTurnOffLights on the coordinator's goroutine, the deferred Stop of
\* a tick loop) the ticker is stopped once and the stop channel is closed once: no
\* caller stops a ticker another caller has released, and no caller closes the
\* channel another caller has closed, either of which ends the process.
C21_StoppedAndClosedOnce ==
    crashCause \notin {"double_close", "stop_nil_ticker"}

\* loop k issues a turn-on command in this step: its pass is a night pass and the
\* cache of the light it handles reads off (service.go:96-101)
TurnOnIssued(k) == PassStep(k) /\ ltarget[k] /\ ~SkipLight(lidx[k], TRUE)

\* C22: once StopAndTurnOffLights has returned (its turn-off pass is complete), no
\* loop task issues a turn-on command, also when the call came while a night tick
\* was part-way through its pass.
C22_NoTurnOnAfterShutdown ==
    [][cprog >= 2 => \A k \in Loops : ~TurnOnIssued(k)]_vars


\* loop k takes a tick: it leaves its select for a tick evaluation
TickStep(k) == lpc[k] = "select" /\ lpc'[k] \in {"refresh", "pass"}
\* loop k completes a refresh pass
RefreshDone(k) == lpc[k] \in {"refresh0", "refresh"} /\ lpc'[k] \in {"select", "pass"}

\* C23: the loop task runs a refresh pass when it starts and takes no tick before
\* that pass is complete; a tick runs a refresh pass if and only if more than the
\* refresh interval has passed since the last pass completed; a completed pass
\* sets the time of the last refresh to the current time, and nothing else does.
C23_RefreshCadence ==
    [][\A k \in Loops :
          /\ lpc[k] = "entry" /\ lpc'[k] # "entry" => lpc'[k] = "refresh0"
          /\ lpc[k] = "refresh0" /\ lpc'[k] # "refresh0" =>
                lpc'[k] = "select" /\ (Running' => lastRefresh' = now)
          /\ TickStep(k) =>
                /\ lastRefresh # ZeroTime
                /\ lpc'[k] = "refresh" <=> now - lastRefresh > RefreshInterval
          /\ RefreshDone(k) /\ Running' => lastRefresh' = now
          /\ lastRefresh' # lastRefresh => \E j \in Loops : RefreshDone(j)]_vars

\* the last refresh was completed at time 0, and a tick taken one unit past the
\* refresh interval is inside its refresh pass
C23_Witness ==
    /\ lpc[1] = "refresh"
    /\ lastRefresh = 0
    /\ now = RefreshInterval + 1


\* loop k handles one light of a refresh pass
RefreshFetch(k) ==
    lpc[k] \in {"refresh0", "refresh"} /\ (lidx'[k] # lidx[k] \/ lpc'[k] # lpc[k])

\* C24: in a refresh pass, the fetch of a light leaves the light's cache entry as it
\* was or sets it to the light's state at the bridge, changes no other entry and
\* does not end the pass: the pass goes on to the next light, and after the last
\* light the time of the last refresh is the current time, whatever the fetches
\* returned.
C24_RefreshPassCompletes ==
    [][\A k \in Loops : RefreshFetch(k) =>
          /\ Running'
          /\ lightStates'[lidx[k]] \in {lightStates[lidx[k]], bridgeOn[lidx[k]]}
          /\ \A l \in Lights \ {lidx[k]} : lightStates'[l] = lightStates[l]
          /\ IF lidx[k] < NLights
             THEN lidx'[k] = lidx[k] + 1 /\ lpc'[k] = lpc[k] /\ lastRefresh' = lastRefresh
             ELSE lpc'[k] \in {"select", "pass"} /\ lastRefresh' = now]_vars


\* loop k completes the light pass of a tick
PassEnd(k) == lpc[k] = "pass" /\ lpc'[k] = "select"

C26_OneConnectionOpen == openConns <= 1


\* C27: while the coordinator listens and is not stopped, a shutdown payload that
\* a client has written is eventually read and StopAndTurnOffLights is called,
\* also behind a client that connected earlier and sent nothing or something else
\* (unless the accepted connections have reached MaxOpen, where the model stops
\* accepting).
C27_ShutdownEventuallyRead ==
    (Listening /\ ShutdownsQueued(backlog) >= 1) ~> (saotlCalls >= 1 \/ openConns = MaxOpen)

\* ---------------------------------------------------------------------- C28
\* C28: for every configuration that validate accepts, a light given by name
\* only included, the initial refresh pass and every tick's light pass complete
\* without dereferencing a missing light id: the process never panics on a nil
\* Lights[l].ID
C28_ValidConfigNoNilLightId == crashCause # "nil_light_id"

\* ---------------------------------------------------------------------- C29
\* C29: a tick classifies its captured time as night if and only if it lies
\* before sunrise or after sunset (the instants of sunrise and of sunset are day,
\* the instants next before sunrise and next after sunset are night; one unit of
\* the clock stands for the smallest instant); the classification stays as
\* captured until the tick's pass has ended, and the pass drives lights only
\* towards it: on at night, off by day.
C29_NightIffOutsideDay ==
    [][\A k \in Loops :
          /\ TickStep(k) => ltarget'[k] = (now < Sunrise \/ now > Sunset)
          /\ ltarget'[k] # ltarget[k] => TickStep(k) \/ PassEnd(k)
          /\ PassStep(k) =>
                \A l \in Lights :
                   /\ bridgeOn'[l] # bridgeOn[l] => l = lidx[k] /\ bridgeOn'[l] = ltarget[k]
                   /\ lightStates'[l] # lightStates[l] =>
                         l = lidx[k] /\ lightStates'[l] = ltarget[k]]_vars

\* a tick captured at the instant next after sunset (every earlier tick since
\* the last refresh was by day) is in its pass and has switched the first light on
C29_Witness ==
    /\ lpc[1] = "pass" /\ lidx[1] = 2 /\ ltarget[1]
    /\ lastRefresh >= Sunrise /\ now = Sunset + 1
    /\ bridgeOn[1] /\ lightStates[1] /\ ~lightStates[2]

\* ---------------------------------------------------------------------- C30
\* C30: with two FileAPIKeyStore instances on one file, a Set or a Remove that
\* returned nil changes the file at its own identifier only: every key another
\* call wrote stays, no removed key comes back, so that the file holds the result
\* of applying all calls in order, whatever time passes between them.
C30_WritesApplyInOrder ==
    [][(StoreCall("Set") \/ StoreCall("Remove")) /\ storeLast'.err = "nil" =>
          /\ storeFile'.exists
          /\ storeFile'.keys = [storeFile.keys EXCEPT ![storeLast'.id] = storeLast'.key]]_vars

====
